---- MODULE Spec2Model ----
(***************************************************************************)
(* Model of src/hatch_build.py: CustomBuildHook.initialize, the hatch      *)
(* build hook that runs `cython bt/core.py -o bt/core.c` in the build root *)
(* and falls back to a pre-compiled bt/core.c when the invocation fails.   *)
(*                                                                         *)
(* The file system is a partial function from paths (sequences of path     *)
(* components) to contents; a path exists iff it is in the domain.  The    *)
(* external tool is the environment: it may not be launchable, and once    *)
(* launched it is an arbitrary program: it may write or remove the output  *)
(* file and the other files of the build root, may exit with any status,   *)
(* may never exit, and may leave processes behind that go on writing and   *)
(* removing files after the child that the hook waits for has exited,      *)
(* also after the hook has returned and during later calls.                *)
(***************************************************************************)
EXTENDS Naturals, Sequences, FiniteSets

VARIABLES
    root,        \* self.root, the build root the host gave the hook
    version,     \* argument `version` of the current call
    build_data,  \* argument `build_data` of the current call
    fs,          \* the file system: path -> content
    pc,          \* position of initialize()
    launched,    \* what starting the subprocess gave: "none", "ok" or an error
    tool,        \* the waited-for child: "none", "running", "exited"
    returncode,  \* <<>> while there is no exit status, <<code>> after exit
    toolWrote,   \* the tool generated the output file and it is still there
    everLaunched,\* some call has started the tool: its processes may be about
    exc,         \* the exception bound to `e` in the handler, or "none"
    error,       \* the exception that left initialize(), or "none"
    trace,       \* observable effects of the current call, in order
    fsAtStart,   \* the file system when the current call started
    runs,        \* number of calls of initialize() so far
    hist         \* records of the last two finished calls, oldest first

vars == <<root, version, build_data, fs, pc, launched, tool, returncode, toolWrote,
          everLaunched, exc, error, trace, fsAtStart, runs, hist>>

----------------------------------------------------------------------------
(* Bounds *)

MaxRuns == 2
MaxContent == 2

(* Inputs *)

Roots == {<<"proj">>}
Versions == {"standard"}
BuildDatas == {[artifacts |-> <<>>]}
Contents == 1..MaxContent
ExitCodes == {0, 1, 2}

InputRel == <<"bt", "core.py">>
OutputRel == <<"bt", "core.c">>
HeaderRel == <<"bt", "core.h">>

\* os.path.join(a, *parts) on component sequences
Join(a, parts) == a \o parts

\* a relative path given to a process is resolved against its cwd
Resolve(cwd, rel) == Join(cwd, rel)

\* the files of build root r that the model follows
RootPaths(r) == {Resolve(r, f) : f \in {InputRel, OutputRel, HeaderRel}}

\* what a file can hold: the artifact any content; for the other files only
\* their presence is followed
ContentsOf(r, p) ==
    IF p = Resolve(r, OutputRel) THEN Contents ELSE {1}

\* the file systems the first call can start from: a source, or none, and
\* perhaps a pre-compiled artifact
FileSystems(r) ==
    {f \in UNION {[D -> Contents] : D \in SUBSET RootPaths(r)} :
        /\ ~(Resolve(r, HeaderRel) \in DOMAIN f)
        /\ \A p \in DOMAIN f : f[p] \in ContentsOf(r, p)}

----------------------------------------------------------------------------
(* Pure parts of initialize() *)

\* os.path.exists(path)
Exists(fsys, path) == path \in DOMAIN fsys

\* a plausible slip: the fallback looks at the source instead of the artifact
core_c_path_input(r) == Join(r, InputRel)

\* core_c_path = os.path.join(self.root, "bt", "core.c")
core_c_path(r) == Join(r, OutputRel)

\* the path the tool writes: "-o bt/core.c" with cwd=self.root
ToolOutputPath(r) == Resolve(r, OutputRel)

\* exceptions subprocess.run can raise before the child runs
LaunchErrors == {"FileNotFoundError", "PermissionError"}

\* a plausible slip: only the non-zero exit is handled
CaughtExceptions_onlyExit == {"CalledProcessError"}

\* except (subprocess.CalledProcessError, FileNotFoundError)
CaughtExceptions == {"CalledProcessError", "FileNotFoundError"}

\* plausible slips in the exit status test
RunResult_inverted(code) == IF code = 0 THEN "CalledProcessError" ELSE "ok"
RunResult_alwaysRaises(code) == "CalledProcessError"
RunResult_zeroEscapes(code) == IF code # 0 THEN "CalledProcessError" ELSE "TypeError"

\* subprocess.run(..., check=True): a non-zero status raises CalledProcessError
RunResult(code) == IF code # 0 THEN "CalledProcessError" ELSE "ok"

\* the message-less outcome of the fallback: raise RuntimeError or return
FallbackOutcome(fsys, r) ==
    IF ~Exists(fsys, core_c_path(r)) THEN "RuntimeError" ELSE "success"

----------------------------------------------------------------------------
(* History: the records of the last two finished calls *)

Push(h, rec) == IF Len(h) < 2 THEN Append(h, rec) ELSE <<h[2], rec>>

\* how the waited-for child ended, as check=True tells it apart
ExitClass(code) ==
    IF code = <<>> THEN "none" ELSE IF code[1] = 0 THEN "zero" ELSE "nonzero"

RunRecord(outcome, l, code, tr) ==
    [outcome |-> outcome,
     launch |-> l,
     exit |-> ExitClass(code),
     wrote |-> toolWrote,
     \* at the moment the call ends; on the fallback path that is the
     \* moment of the os.path.exists test
     existsAfter |-> Exists(fs, ToolOutputPath(root)),
     trace |-> tr]

----------------------------------------------------------------------------
Init ==
    /\ root \in Roots
    /\ version = "none"
    /\ build_data \in BuildDatas
    /\ fs \in FileSystems(root)
    /\ pc = "idle"
    /\ launched = "none"
    /\ tool = "none"
    /\ returncode = <<>>
    /\ toolWrote = FALSE
    /\ everLaunched = FALSE
    /\ exc = "none"
    /\ error = "none"
    /\ trace = <<>>
    /\ fsAtStart = fs
    /\ runs = 0
    /\ hist = <<>>

\* the host calls initialize(version, build_data); line 16 prints
Call(v, bd) ==
    /\ pc \in {"idle", "returned", "raised"}
    /\ runs < MaxRuns
    /\ runs' = runs + 1
    /\ version' = v
    /\ build_data' = bd
    /\ pc' = "try"
    /\ launched' = "none"
    /\ tool' = "none"
    /\ returncode' = <<>>
    /\ toolWrote' = FALSE
    /\ exc' = "none"
    /\ error' = "none"
    /\ trace' = <<"print:compiling">>
    /\ fsAtStart' = fs
    /\ UNCHANGED <<root, fs, hist, everLaunched>>

\* subprocess.run starts the child, or fails to
Launch(l) ==
    /\ pc = "try"
    /\ launched' = l
    /\ everLaunched' = (everLaunched \/ l = "ok")
    /\ trace' = Append(trace, "invoke")
    /\ IF l = "ok"
       THEN /\ tool' = "running"
            /\ pc' = "waiting"
            /\ UNCHANGED <<exc, error, hist>>
       ELSE IF l \in CaughtExceptions
       THEN /\ pc' = "except"
            /\ exc' = l
            /\ UNCHANGED <<tool, error, hist>>
       ELSE /\ pc' = "raised"
            /\ error' = l
            /\ hist' = Push(hist, RunRecord(l, l, <<>>, trace'))
            /\ UNCHANGED <<tool, exc>>
    /\ UNCHANGED <<root, version, build_data, fs, returncode, toolWrote,
                   fsAtStart, runs>>

\* the child, or a process left behind by this or an earlier call's child,
\* writes a file of its working directory: the -o file or another
ToolWrite(p, c) ==
    /\ everLaunched
    /\ toolWrote' = IF p = ToolOutputPath(root) THEN TRUE ELSE toolWrote
    /\ fs' = [q \in DOMAIN fs \cup {p} |-> IF q = p THEN c ELSE fs[q]]
    /\ UNCHANGED <<root, version, build_data, everLaunched, pc, launched, tool, returncode, exc,
                   error, trace, fsAtStart, runs, hist>>

\* the child, or a process it left behind, removes a file of its working
\* directory
ToolRemove(p) ==
    /\ everLaunched
    /\ p \in DOMAIN fs
    /\ toolWrote' = IF p = ToolOutputPath(root) THEN FALSE ELSE toolWrote
    /\ fs' = [q \in DOMAIN fs \ {p} |-> fs[q]]
    /\ UNCHANGED <<root, version, build_data, everLaunched, pc, launched, tool, returncode, exc,
                   error, trace, fsAtStart, runs, hist>>

\* the child exits
ToolExit(code) ==
    /\ tool = "running"
    /\ tool' = "exited"
    /\ returncode' = <<code>>
    /\ UNCHANGED <<root, version, build_data, everLaunched, fs, pc, launched, toolWrote, exc, error,
                   trace, fsAtStart, runs, hist>>

\* a slip: Popen without waiting for the child
RunReturns_noWait ==
    /\ pc = "waiting"
    /\ pc' = "returned"
    /\ trace' = Append(trace, "print:success")
    /\ hist' = Push(hist, RunRecord("success", launched, returncode, trace'))
    /\ UNCHANGED <<root, version, build_data, everLaunched, fs, launched, tool, returncode, toolWrote,
                   exc, error, fsAtStart, runs>>

\* subprocess.run returns or raises once the child has exited; line 22 prints
RunReturns ==
    /\ pc = "waiting"
    /\ tool = "exited"
    /\ LET r == RunResult(returncode[1]) IN
       IF r = "ok"
       THEN /\ pc' = "returned"
            /\ trace' = Append(trace, "print:success")
            /\ hist' = Push(hist,
                         RunRecord("success", launched, returncode, trace'))
            /\ UNCHANGED <<exc, error>>
       ELSE IF r \in CaughtExceptions
       THEN /\ pc' = "except"
            /\ exc' = r
            /\ UNCHANGED <<trace, error, hist>>
       ELSE /\ pc' = "raised"
            /\ error' = r
            /\ hist' = Push(hist, RunRecord(r, launched, returncode, trace))
            /\ UNCHANGED <<trace, exc>>
    /\ UNCHANGED <<root, version, build_data, everLaunched, fs, launched, tool, returncode, toolWrote,
                   fsAtStart, runs>>

\* a slip: the handler touches the artifact before testing for it
CheckExists_touches ==
    /\ pc = "except"
    /\ fs' = [p \in DOMAIN fs \cup {core_c_path(root)} |->
                IF p \in DOMAIN fs THEN fs[p] ELSE 1]
    /\ pc' = "returned"
    /\ trace' = trace \o <<"print:failed", "print:checking", "exists?",
                           "print:using">>
    /\ hist' = Push(hist, [RunRecord("success", launched, returncode, trace')
                             EXCEPT !.existsAfter = TRUE])
    /\ UNCHANGED <<root, version, build_data, everLaunched, launched, tool, returncode, toolWrote,
                   exc, error, fsAtStart, runs>>

\* the handler, lines 24-32
CheckExists ==
    /\ pc = "except"
    /\ LET o == FallbackOutcome(fs, root)
           t == trace \o <<"print:failed", "print:checking", "exists?">>
       IN
       IF o = "RuntimeError"
       THEN /\ pc' = "raised"
            /\ error' = "RuntimeError"
            /\ trace' = t
            /\ hist' = Push(hist,
                         RunRecord("RuntimeError", launched, returncode, t))
       ELSE /\ pc' = "returned"
            /\ trace' = Append(t, "print:using")
            /\ hist' = Push(hist,
                         RunRecord("success", launched, returncode, trace'))
            /\ UNCHANGED error
    /\ UNCHANGED <<root, version, build_data, everLaunched, fs, launched, tool, returncode, toolWrote,
                   exc, fsAtStart, runs>>

HookStep ==
    \/ \E l \in {"ok"} \cup LaunchErrors : Launch(l)
    \/ RunReturns
    \/ CheckExists

Next ==
    \/ \E v \in Versions, bd \in BuildDatas : Call(v, bd)
    \/ \E l \in {"ok"} \cup LaunchErrors : Launch(l)
    \/ \E p \in RootPaths(root) : \E c \in ContentsOf(root, p) : ToolWrite(p, c)
    \/ \E p \in RootPaths(root) : ToolRemove(p)
    \/ \E code \in ExitCodes : ToolExit(code)
    \/ RunReturns
    \/ CheckExists

Spec == Init /\ [][Next]_vars

\* initialize() runs on the calling thread and always takes its next step;
\* the host and the external tool owe nothing
FairSpec == Spec /\ WF_vars(HookStep)

----------------------------------------------------------------------------
(* Vocabulary of the properties *)

OutputFile == ToolOutputPath(root)

Terminal == pc \in {"returned", "raised"}
Succeeded == pc = "returned"

ToolMissing == launched = "FileNotFoundError"
ToolExitedNonZero ==
    launched = "ok" /\ tool = "exited" /\ returncode # <<>> /\ returncode[1] # 0
ToolExitedZero ==
    launched = "ok" /\ tool = "exited" /\ returncode = <<0>>

\* a working compiler on a valid input: it generated the output and exited 0
ToolWorked == ToolExitedZero /\ toolWrote

Count(seq, x) == Cardinality({i \in DOMAIN seq : seq[i] = x})

RecMissing(h) == h.launch = "FileNotFoundError"
RecNonZero(h) == h.launch = "ok" /\ h.exit = "nonzero"
RecWorked(h) == h.launch = "ok" /\ h.exit = "zero" /\ h.wrote

----------------------------------------------------------------------------
\* C1: whenever the step has completed successfully, the output file exists,
\* whatever the external tool did and whatever the file system held.
C1_SuccessImpliesOutput ==
    Succeeded => Exists(fs, OutputFile)

\* C2: a missing tool or a non-zero exit, with no output file at the
\* moment of the check, ends the step in the RuntimeError and never in
\* success.
C2_FailedAndAbsentRaises ==
    (Terminal /\ (ToolMissing \/ ToolExitedNonZero)
       /\ ~hist[Len(hist)].existsAfter)
        => (pc = "raised" /\ error = "RuntimeError")

C2_Witness ==
    /\ pc = "raised"
    /\ error = "RuntimeError"
    /\ ToolMissing
    /\ Exists(fs, Resolve(root, InputRel))

\* C3: a missing tool or a non-zero exit, with the output file present before
\* the step, ends in success with the output file's content as it was.
C3_FallbackKeepsContent ==
    (Terminal /\ (ToolMissing \/ ToolExitedNonZero) /\ Exists(fsAtStart, OutputFile))
        => /\ Succeeded
           /\ Exists(fs, OutputFile)
           /\ fs[OutputFile] = fsAtStart[OutputFile]

\* C4: once a working tool (output generated, exit status 0) has been waited
\* for, the step has succeeded, logged the success line last, raised nothing,
\* and the output file exists, whether or not it existed before.
C4_WorkingToolSucceeds ==
    (ToolWorked /\ pc # "waiting")
        => /\ Succeeded
           /\ error = "none"
           /\ trace[Len(trace)] = "print:success"
           /\ Exists(fs, OutputFile)

C4_Witness ==
    ToolWorked /\ Succeeded /\ ~Exists(fsAtStart, OutputFile)

\* C5: a run ends in success or in the RuntimeError; nothing else escapes.
C5_OnlyOneFatalKind ==
    Terminal => (Succeeded \/ error = "RuntimeError")

\* C6: two successive runs with a working tool both succeed, the output file
\* exists after each, and the second behaves exactly as the first.
C6_TwoWorkingRuns ==
    \A i \in 1..(Len(hist) - 1) :
        (RecWorked(hist[i]) /\ RecWorked(hist[i + 1]))
            => /\ hist[i].outcome = "success"
               /\ hist[i + 1].outcome = "success"
               /\ hist[i].existsAfter
               /\ hist[i + 1].existsAfter
               /\ hist[i + 1].trace = hist[i].trace

C6_Witness ==
    /\ Len(hist) >= 2
    /\ RecWorked(hist[1])
    /\ RecWorked(hist[2])
    /\ hist[1].trace = hist[2].trace

\* C7: within one run the tool is invoked once, first; the existence test
\* happens at most once, after a failed invocation only, never after exit
\* status 0, and no invocation follows it.
C7_OrderAndNoRetry ==
    /\ Count(trace, "invoke") <= 1
    /\ Count(trace, "exists?") <= 1
    /\ Terminal => Count(trace, "invoke") = 1
    /\ Len(trace) >= 2 => trace[2] = "invoke"
    /\ \A k \in DOMAIN trace :
          trace[k] = "exists?" =>
             /\ \E j \in 1..(k - 1) : trace[j] = "invoke"
             /\ \A j \in (k + 1)..Len(trace) : trace[j] # "invoke"
             /\ ToolMissing \/ ToolExitedNonZero
             /\ ~ToolExitedZero

C7_Witness ==
    Count(trace, "exists?") = 1 /\ ToolExitedNonZero /\ toolWrote

\* C8: a run whose tool was missing and a run whose tool exited non-zero end
\* the same way when the output file's existence at the check is the same:
\* success if it exists, the RuntimeError if not.
C8_FailureModesAlike ==
    \A i, j \in DOMAIN hist :
        (RecMissing(hist[i]) /\ RecNonZero(hist[j])
           /\ hist[i].existsAfter = hist[j].existsAfter)
            => /\ hist[i].outcome = hist[j].outcome
               /\ hist[i].outcome =
                    IF hist[i].existsAfter THEN "success" ELSE "RuntimeError"

C8_Witness ==
    /\ Len(hist) >= 2
    /\ RecMissing(hist[1])
    /\ RecNonZero(hist[2])
    /\ ~hist[1].existsAfter
    /\ ~hist[2].existsAfter

\* C9 as stated: during a run nothing but the output file differs from the
\* file system at the start of the run, the output file is only ever written
\* (never removed), and nothing changes unless the tool was launched.
C9_OnlyOutputWritten ==
    pc # "idle" =>
        /\ \A p \in (DOMAIN fs \cup DOMAIN fsAtStart) \ {OutputFile} :
              /\ p \in DOMAIN fs
              /\ p \in DOMAIN fsAtStart
              /\ fs[p] = fsAtStart[p]
        /\ Exists(fsAtStart, OutputFile) => Exists(fs, OutputFile)
        /\ fs # fsAtStart => launched = "ok"

\* one step of the frame condition of C9
C9_FrameStep ==
    /\ (fs' # fs) =>
          /\ everLaunched
          /\ <<pc, trace, exc, error, hist>>' = <<pc, trace, exc, error, hist>>
    /\ root' = root
    /\ (~Terminal /\ pc # "idle") =>
          /\ version' = version
          /\ build_data' = build_data

\* C9 (amended): no step of the hook changes the file system; every change
\* is made by a tool that this call or an earlier one launched; as long as
\* no call has launched the tool, a run leaves the file system as it was;
\* the build root never changes and the arguments do not change during a run.
C9_Frame ==
    /\ [][C9_FrameStep]_vars
    /\ [](~everLaunched => fs = fsAtStart)

C9_Witness ==
    /\ Terminal
    /\ launched = "ok"
    /\ fs # fsAtStart
    /\ Exists(fs, Resolve(root, HeaderRel))
    /\ Len(hist) >= 2
    /\ hist[1].launch = "FileNotFoundError"
    /\ hist[1].trace[Len(hist[1].trace)] = "print:using"

\* C10: the step never ends while the tool is running, stays blocked as long
\* as the tool runs, and ends once the tool has exited or failed to launch.
C10_Synchronous ==
    /\ [](Terminal => tool # "running")
    /\ [][(pc = "waiting" /\ tool' = "running") => pc' = "waiting"]_vars
    /\ (tool = "exited" \/ launched \in LaunchErrors) ~> Terminal

C10_Witness ==
    Terminal /\ tool = "exited" /\ Len(hist) >= 2

====
